---- MODULE Spec2Model ----
(***************************************************************************)
(* Comic generator backend: the Express routers (auth, comics, images,     *)
(* image editor), the authenticateToken middleware, the two MySQL tables   *)
(* they query, the image store and the generation client.                  *)
(*                                                                         *)
(* A handler runs without interruption up to each `await`; a database      *)
(* statement is atomic.  A handler with one statement is one action.  A    *)
(* handler with several awaits is served by a slot: between two of its     *)
(* steps the steps of other requests may be interleaved.                   *)
(*                                                                         *)
(* What a handler does with a request in a given state is an operator      *)
(* (LoginResult, DeleteResult, ...) that yields the full response and the  *)
(* new values of what it writes; the action applies it.  The variable resp *)
(* keeps the route, status and message of the response sent last.          *)
(***************************************************************************)
EXTENDS Integers, Sequences, FiniteSets, TLC

VARIABLES
    env,          \* process.env: JWT_SECRET, API_KEY
    now,          \* wall clock, in days
    users,        \* rows of table users
    nextUserId,   \* AUTO_INCREMENT of users.id
    plain,        \* history: the password each user row was registered with
    issued,       \* tokens signed by jwt.sign so far
    comics,       \* rows of table comics
    nextComicId,  \* AUTO_INCREMENT of comics.id
    files,        \* files on disk, by path
    pc,           \* per slot: where the request it serves is suspended
    loc,          \* per slot: the suspended handler's locals
    resp          \* the response sent last: route, status, message, caller, :id

vars == <<env, now, users, nextUserId, plain, issued, comics, nextComicId, files, pc, loc, resp>>

(***************************************************************************)
(* Bounds                                                                  *)
(***************************************************************************)
MaxUsers == 2
MaxComics == 2
MaxTicks == 1
MaxFiles == 3

Slots == {"s1", "s2"}

(***************************************************************************)
(* JavaScript values                                                       *)
(***************************************************************************)
\* A field absent from the JSON body (undefined).
Missing == "<undefined>"

\* !x for a string-valued field
Falsy(x) == x = Missing \/ x = ""

DigitChar == <<"0", "1", "2", "3", "4", "5", "6", "7", "8", "9">>

\* Number.prototype.toString of a non-negative integer, as a sequence of characters
RECURSIVE ToStr(_)
ToStr(n) == IF n < 10 THEN <<DigitChar[n + 1]>>
            ELSE ToStr(n \div 10) \o <<DigitChar[(n % 10) + 1]>>

\* the longest prefix of digits of a sequence of characters
RECURSIVE DigitPrefix(_)
DigitPrefix(s) == IF s = <<>> \/ ~(\E i \in 1..10 : DigitChar[i] = Head(s)) THEN <<>>
                  ELSE <<Head(s)>> \o DigitPrefix(Tail(s))

RECURSIVE DigitsValue(_)
DigitsValue(s) == IF s = <<>> THEN 0
                  ELSE 10 * DigitsValue(SubSeq(s, 1, Len(s) - 1))
                       + (CHOOSE i \in 1..10 : DigitChar[i] = s[Len(s)]) - 1

\* MySQL's comparison of an INT column with a string parameter: the string is
\* converted to a number, its numeric prefix, 0 when there is none.
MySqlToNumber(s) == DigitsValue(DigitPrefix(s))

\* parseInt(str, 10): the value of the leading digits, NaN when there are none
NaN == 0 - 1
ParseInt(str) == IF DigitPrefix(str) = <<>> THEN NaN ELSE DigitsValue(DigitPrefix(str))

StartsWith(str, prefix) ==
    Len(str) >= Len(prefix) /\ SubSeq(str, 1, Len(prefix)) = prefix

(***************************************************************************)
(* Passwords and bcrypt                                                    *)
(***************************************************************************)
\* Passwords are sequences of characters; NoPassword is an absent field.
NoPassword == <<"<undefined>">>

FalsyPw(p) == p = NoPassword \/ p = <<>>

\* bcrypt keys the cipher with the first 18 32-bit words of the password
BcryptMaxBytes == 18 * 4

ShortPw == <<"a", "b", "c">>
Pw1 == <<"s", "e", "c", "r", "e", "t">>
Pw2 == <<"s", "e", "c", "r", "e", "u">>
\* two passwords of 73 bytes that differ in the last
LongPw1 == [i \in 1..(BcryptMaxBytes - 1) |-> "a"] \o <<"k", "x">>
LongPw2 == [i \in 1..(BcryptMaxBytes - 1) |-> "a"] \o <<"k", "y">>

Salts == {"salt"}

\* the bytes that reach the key schedule: 18 words read from the password
\* and its terminating NUL, from the start again when these run out
BcryptKey(password) ==
    LET z == password \o <<"NUL">>
    IN  [i \in 1..BcryptMaxBytes |-> z[((i - 1) % Len(z)) + 1]]

\* bcrypt.hash(password, 10)
BcryptHash(password, salt) == [salt |-> salt, digest |-> BcryptKey(password)]

\* bcrypt.compare(password, hash)
BcryptCompare(password, hash) == BcryptHash(password, hash.salt) = hash

(***************************************************************************)
(* JSON web tokens                                                         *)
(***************************************************************************)
Unset == "<unset>"
ServerKey == "server-key"
ForgedKey == "attacker-key"

\* process.env.JWT_EXPIRES_IN || '7d'
ExpiresInDays == 7

\* jwt.sign({userId, email}, secret, {expiresIn})
JwtSignMutFirstUser(userId, email, secret) ==
    [userId |-> <<"1">>, email |-> email, exp |-> now + ExpiresInDays, key |-> secret]

JwtSign(userId, email, secret) ==
    [userId |-> userId, email |-> email, exp |-> now + ExpiresInDays, key |-> secret]

\* jwt.verify(token, secret) does not throw
JwtVerifies(token, secret) == token.key = secret /\ now < token.exp

(***************************************************************************)
(* Responses                                                               *)
(***************************************************************************)
\* what a request made the server do: statements run, files written or
\* removed, calls to the generative provider
Effects(db, fs, script, image, edit) ==
    [db |-> db, fs |-> fs, script |-> script, image |-> image, edit |-> edit]

NoEffects == Effects(0, 0, 0, 0, 0)
Queries(n) == Effects(n, 0, 0, 0, 0)

\* req.userId and req.userEmail as the handler sees them, once next() ran
NoCtx == [invoked |-> FALSE, userId |-> <<>>, userEmail |-> Missing]
Ctx(userId, userEmail) == [invoked |-> TRUE, userId |-> userId, userEmail |-> userEmail]

\* a response in full: the route, res.status, the error message, the request
\* context the handler ran with, what was done for the request, the body
Res(route, status, error, ctx, did, out) ==
    [route |-> route, status |-> status, error |-> error, ctx |-> ctx, did |-> did, out |-> out]

NoOut == [none |-> TRUE]

NoId == <<>>

\* what resp keeps of a response, with the :id of the request
Brief(res, idParam) ==
    [route |-> res.route, status |-> res.status, error |-> res.error,
     userId |-> res.ctx.userId, id |-> idParam]

NoResp == [route |-> "none", status |-> 0, error |-> "", userId |-> <<>>, id |-> NoId]

Idle == [none |-> TRUE]

(***************************************************************************)
(* The Authorization header and authenticateToken                          *)
(***************************************************************************)
\* No header, "Bearer" with nothing after it, or "Bearer <token>"
NoHeader == [present |-> FALSE, cred |-> {}]
BearerOnly == [present |-> TRUE, cred |-> {}]
Bearer(token) == [present |-> TRUE, cred |-> {token}]

\* tokens a client can make up: the payload of a user, signed with another key
ForgedTokens ==
    { [userId |-> ToStr(u.id), email |-> u.email, exp |-> now + ExpiresInDays, key |-> ForgedKey] :
        u \in users }

Headers == {NoHeader, BearerOnly} \cup {Bearer(t) : t \in issued \cup ForgedTokens}

\* authHeader && authHeader.split(' ')[1]
SplitToken(header) == IF header.present THEN header.cred ELSE {}

TokenIn(header) == CHOOSE t \in SplitToken(header) : TRUE

Denied(status, error) == [next |-> FALSE, status |-> status, error |-> error, ctx |-> NoCtx]

\* the middleware: either it answers itself, or it sets req.userId and
\* req.userEmail and calls next()
AuthenticateTokenMutNoVerify(header) ==
    IF SplitToken(header) = {} THEN Denied(401, "Access token required")
    ELSE IF env.JWT_SECRET = Unset THEN Denied(500, "Server configuration error")
    ELSE [next |-> TRUE, status |-> 0, error |-> "",
          ctx |-> Ctx(TokenIn(header).userId, TokenIn(header).email)]

AuthenticateTokenMutNextOnMissing(header) ==
    IF SplitToken(header) = {}
    THEN [next |-> TRUE, status |-> 0, error |-> "", ctx |-> Ctx(<<>>, Missing)]
    ELSE IF env.JWT_SECRET = Unset THEN Denied(500, "Server configuration error")
    ELSE IF JwtVerifies(TokenIn(header), env.JWT_SECRET)
         THEN [next |-> TRUE, status |-> 0, error |-> "",
               ctx |-> Ctx(TokenIn(header).userId, TokenIn(header).email)]
         ELSE Denied(403, "Invalid or expired token")

AuthenticateToken(header) ==
    IF SplitToken(header) = {} THEN Denied(401, "Access token required")
    ELSE IF env.JWT_SECRET = Unset THEN Denied(500, "Server configuration error")
    ELSE IF JwtVerifies(TokenIn(header), env.JWT_SECRET)
         THEN [next |-> TRUE, status |-> 0, error |-> "",
               ctx |-> Ctx(TokenIn(header).userId, TokenIn(header).email)]
         ELSE Denied(403, "Invalid or expired token")

\* the answer of a router whose middleware did not call next()
GateDenied(route, auth) == Res(route, auth.status, auth.error, NoCtx, NoEffects, NoOut)

(***************************************************************************)
(* Table users                                                             *)
(***************************************************************************)
\* SELECT ... FROM users WHERE email = ?
UserByEmail(email) == {u \in users : u.email = email}

\* SELECT ... FROM users WHERE id = ?, the parameter a string
UserById(id) == {u \in users : u.id = MySqlToNumber(id)}

\* the UNIQUE key on users.email: an INSERT of a present email is refused
UsersEmailUniqueMutNone(email) == FALSE

UsersEmailUnique(email) == UserByEmail(email) # {}

PublicUserMutWithHash(u) ==
    [id |-> ToStr(u.id), email |-> u.email, name |-> u.name, password_hash |-> u.password_hash]

PublicUser(u) == [id |-> ToStr(u.id), email |-> u.email, name |-> u.name]

(***************************************************************************)
(* POST /api/auth/register                                                 *)
(***************************************************************************)
\* phone is optional: a body made here has none
Body(email, password, name) ==
    [email |-> email, password |-> password, name |-> name, phone |-> Missing]

RegisterBodies ==
    { Body("ann@x", Pw1, "Ann"), Body("ann@x", LongPw1, "Ann"),
      [Body("bob@x", Pw2, "Bob") EXCEPT !.phone = "555"],
      Body("ann@x", ShortPw, "Ann"), Body(Missing, Pw1, "Ann"),
      Body("ann@x", NoPassword, "Ann"), Body("bob@x", Pw1, "") }

\* up to the SELECT: a response, or status 0 when the handler goes on
RegisterCheckResult(body) ==
    IF Falsy(body.email) \/ FalsyPw(body.password) \/ Falsy(body.name)
    THEN Res("register", 400, "Email, password, and name are required", NoCtx, NoEffects, NoOut)
    ELSE IF Len(body.password) < 6
    THEN Res("register", 400, "Password must be at least 6 characters", NoCtx, NoEffects, NoOut)
    ELSE IF UserByEmail(body.email) # {}
    THEN Res("register", 400, "User already exists", NoCtx, Queries(1), NoOut)
    ELSE Res("register", 0, "", NoCtx, Queries(1), NoOut)

\* from bcrypt.hash to the response: the INSERT, then the token
RegisterInsertResult(body, salt) ==
    LET row == [id |-> nextUserId, email |-> body.email, name |-> body.name,
                phone |-> IF Falsy(body.phone) THEN "<null>" ELSE body.phone,
                password_hash |-> BcryptHash(body.password, salt)]
        token == JwtSign(ToStr(row.id), body.email, env.JWT_SECRET)
    IN  IF UsersEmailUnique(body.email)
        THEN [res |-> Res("register", 500, "Failed to register user", NoCtx, Queries(2), NoOut),
              users |-> users, plain |-> plain, issued |-> issued]
        ELSE IF env.JWT_SECRET = Unset
        THEN [res |-> Res("register", 500, "Server configuration error", NoCtx, Queries(2), NoOut),
              users |-> users \cup {row}, plain |-> plain \cup {<<row.id, body.password>>},
              issued |-> issued]
        ELSE [res |-> Res("register", 201, "", NoCtx, Queries(2),
                          [token |-> token, user |-> PublicUser(row)]),
              users |-> users \cup {row}, plain |-> plain \cup {<<row.id, body.password>>},
              issued |-> issued \cup {token}]

RegisterCheck(s, body) ==
    /\ pc[s] = "idle"
    /\ nextUserId + Cardinality({s2 \in Slots : pc[s2] = "reg_insert"}) <= MaxUsers
    /\ LET r == RegisterCheckResult(body)
       IN  IF r.status = 0
           THEN /\ pc' = [pc EXCEPT ![s] = "reg_insert"]
                /\ loc' = [loc EXCEPT ![s] = body]
                /\ UNCHANGED resp
           ELSE /\ resp' = Brief(r, NoId)
                /\ UNCHANGED <<pc, loc>>
    /\ UNCHANGED <<env, now, users, nextUserId, plain, issued, comics, nextComicId, files>>

RegisterInsert(s) ==
    /\ pc[s] = "reg_insert"
    /\ \E salt \in Salts :
         LET r == RegisterInsertResult(loc[s], salt)
         IN  /\ users' = r.users
             /\ plain' = r.plain
             /\ issued' = r.issued
             /\ resp' = Brief(r.res, NoId)
    /\ nextUserId' = nextUserId + 1
    /\ pc' = [pc EXCEPT ![s] = "idle"]
    /\ loc' = [loc EXCEPT ![s] = Idle]
    /\ UNCHANGED <<env, now, comics, nextComicId, files>>

(***************************************************************************)
(* POST /api/auth/login                                                    *)
(***************************************************************************)
LoginBodies ==
    [email : {"ann@x"}, password : {Pw1, Pw2, LongPw1, LongPw2, <<>>, NoPassword}]
    \cup {[email |-> "bob@x", password |-> Pw2], [email |-> "zoe@x", password |-> Pw1],
          [email |-> Missing, password |-> Pw1]}

\* The handler reads the table once; what follows works on the row it read.
LoginResult(body) ==
    LET found == UserByEmail(body.email)
        user == CHOOSE u \in found : TRUE
        token == JwtSign(ToStr(user.id), user.email, env.JWT_SECRET)
    IN  IF Falsy(body.email) \/ FalsyPw(body.password)
        THEN [res |-> Res("login", 400, "Email and password are required", NoCtx, NoEffects, NoOut),
              issued |-> issued]
        ELSE IF found = {}
        THEN [res |-> Res("login", 401, "Invalid credentials", NoCtx, Queries(1), NoOut),
              issued |-> issued]
        ELSE IF ~BcryptCompare(body.password, user.password_hash)
        THEN [res |-> Res("login", 401, "Invalid credentials", NoCtx, Queries(1), NoOut),
              issued |-> issued]
        ELSE IF env.JWT_SECRET = Unset
        THEN [res |-> Res("login", 500, "Server configuration error", NoCtx, Queries(1), NoOut),
              issued |-> issued]
        ELSE [res |-> Res("login", 200, "", NoCtx, Queries(1),
                          [token |-> token, user |-> PublicUser(user)]),
              issued |-> issued \cup {token}]

Login(body) ==
    /\ LET r == LoginResult(body)
       IN  /\ resp' = Brief(r.res, NoId)
           /\ issued' = r.issued
    /\ UNCHANGED <<env, now, users, nextUserId, plain, comics, nextComicId, files, pc, loc>>

(***************************************************************************)
(* GET /api/auth/me                                                        *)
(***************************************************************************)
\* The route checks the token itself; a jwt.verify that throws lands in the
\* handler's catch.
MeResult(header) ==
    LET found == UserById(TokenIn(header).userId)
        user == CHOOSE u \in found : TRUE
    IN  IF SplitToken(header) = {}
        THEN Res("me", 401, "Access token required", NoCtx, NoEffects, NoOut)
        ELSE IF env.JWT_SECRET = Unset
        THEN Res("me", 500, "Server configuration error", NoCtx, NoEffects, NoOut)
        ELSE IF ~JwtVerifies(TokenIn(header), env.JWT_SECRET)
        THEN Res("me", 401, "Invalid token", NoCtx, NoEffects, NoOut)
        ELSE IF found = {}
        THEN Res("me", 404, "User not found", NoCtx, Queries(1), NoOut)
        ELSE Res("me", 200, "", NoCtx, Queries(1),
                 [id |-> ToStr(user.id), email |-> user.email, name |-> user.name,
                  phone |-> user.phone])

Me(header) ==
    /\ resp' = Brief(MeResult(header), NoId)
    /\ UNCHANGED <<env, now, users, nextUserId, plain, issued, comics, nextComicId, files, pc, loc>>

\* Time passes.
Tick(d) ==
    /\ now < MaxTicks * ExpiresInDays
    /\ now' = now + d
    /\ UNCHANGED <<env, users, nextUserId, plain, issued, comics, nextComicId, files, pc, loc, resp>>

(***************************************************************************)
(* Table comics (002_create_comics_table.sql)                              *)
(***************************************************************************)
SourceTypes == {"Predefined", "AI"}

BoxOf(i) == <<"box1", "box2", "box3", "box4", "box5">>[i]

Boxes == {BoxOf(i) : i \in 1..5}

\* JSON.stringify and JSON.parse: the text that denotes a value
JsonStringify(value) == [json |-> value]
JsonParse(text) == text.json

\* new Date(row.created_at).getTime(): milliseconds
GetTime(timestamp) == timestamp * (24 * 60 * 60 * 1000)

\* an imageUrl that is undefined
NoUrl == <<"<undefined>">>

ImgRelative == <<"i", "m", "g", "/", "o">>
PanelImg == <<"i", "m", "g", "/", "p">>

Panel(scene, image) == [scene |-> scene, narration |-> "n", imageUrl |-> image]

FivePanels == [b \in Boxes |-> Panel("s", PanelImg)]

\* WHERE id = ? AND user_id = ?, both parameters strings
RowsOf(idParam, userId) ==
    LET id == MySqlToNumber(idParam)
        uid == MySqlToNumber(userId)
    IN  {c \in comics : c.id = id /\ c.user_id = uid}

(***************************************************************************)
(* GET /api/comics                                                         *)
(***************************************************************************)
Summary(row) ==
    [id |-> ToStr(row.id), title |-> row.title, category |-> row.category,
     createdAt |-> GetTime(row.created_at)]

\* WHERE user_id = ?
ListRowsMutAllUsers(userId) == comics

ListRows(userId) ==
    LET uid == MySqlToNumber(userId)
    IN  {c \in comics : c.user_id = uid}

\* ORDER BY created_at DESC: the sequences that list the rows newest first;
\* rows of equal created_at come in either order
ListOrder(rows) ==
    { order \in [1..Cardinality(rows) -> rows] :
        /\ \A i, j \in 1..Cardinality(rows) : i # j => order[i] # order[j]
        /\ \A i, j \in 1..Cardinality(rows) : i < j => order[i].created_at >= order[j].created_at }

ListResults(header) ==
    LET auth == AuthenticateToken(header)
    IN  IF ~auth.next THEN {GateDenied("list", auth)}
        ELSE { Res("list", 200, "", auth.ctx, Queries(1), [i \in 1..Len(rows) |-> Summary(rows[i])]) :
                 rows \in ListOrder(ListRows(auth.ctx.userId)) }

ComicsList(header) ==
    /\ \E r \in ListResults(header) : resp' = Brief(r, NoId)
    /\ UNCHANGED <<env, now, users, nextUserId, plain, issued, comics, nextComicId, files, pc, loc>>

(***************************************************************************)
(* Stored image paths to URLs (services/imageUpload getImageUrl)           *)
(***************************************************************************)
HttpPrefix == <<"h", "t", "t", "p">>
DataImagePrefix == <<"d", "a", "t", "a", ":", "i", "m", "a", "g", "e", "/">>
UploadsPrefix == <<"/", "u", "p", "l", "o", "a", "d", "s">>

\* process.env.BACKEND_URL || process.env.API_URL || 'https://api.mycomic.online'
BackendUrl == <<"h", "t", "t", "p", "s", ":", "/", "/", "a", "p", "i", ".", "m", "y", "c", "o", "m", "i", "c", ".", "o", "n", "l", "i", "n", "e">>

\* backendUrl.replace(/\/$/, '')
StripTrailingSlash(url) ==
    IF url # <<>> /\ url[Len(url)] = "/" THEN SubSeq(url, 1, Len(url) - 1) ELSE url

GetImageUrlMutNoUploads(imagePath) ==
    IF StartsWith(imagePath, HttpPrefix) THEN imagePath
    ELSE StripTrailingSlash(BackendUrl) \o imagePath

GetImageUrl(imagePath) ==
    IF StartsWith(imagePath, HttpPrefix) THEN imagePath
    ELSE IF StartsWith(imagePath, UploadsPrefix)
         THEN StripTrailingSlash(BackendUrl) \o imagePath
         ELSE StripTrailingSlash(BackendUrl) \o UploadsPrefix \o <<"/">> \o imagePath

\* convertImagePath of the GET and PUT handlers
ConvertImagePath(path) ==
    IF path = <<>> \/ path = NoUrl \/ StartsWith(path, HttpPrefix) \/ StartsWith(path, DataImagePrefix)
    THEN path
    ELSE GetImageUrl(path)

\* panelsWithFullUrls: a box the stored value lacks stays undefined, an
\* imageUrl that is empty becomes undefined
PanelsWithFullUrls(panels) ==
    [b \in DOMAIN panels |->
        [panels[b] EXCEPT !.imageUrl = IF @ # <<>> /\ @ # NoUrl THEN ConvertImagePath(@) ELSE NoUrl]]

\* the full comic of the GET and PUT responses
FullComic(row) ==
    [id |-> ToStr(row.id), title |-> row.title, createdAt |-> GetTime(row.created_at),
     category |-> row.category, sourceType |-> row.source_type,
     characterNames |-> JsonParse(row.character_names),
     originalImage |-> ConvertImagePath(row.original_image),
     panels |-> PanelsWithFullUrls(JsonParse(row.panels))]

(***************************************************************************)
(* GET /api/comics/:id                                                     *)
(***************************************************************************)
\* WHERE (id = ? OR id = ?) AND user_id = ?, with [id, parseInt(id, 10), req.userId]
GetRows(idParam, userId) ==
    LET id == MySqlToNumber(idParam)
        parsed == ParseInt(idParam)
        uid == MySqlToNumber(userId)
    IN  {c \in comics : (c.id = id \/ c.id = parsed) /\ c.user_id = uid}

GetResults(header, idParam) ==
    LET auth == AuthenticateToken(header)
        rows == GetRows(idParam, auth.ctx.userId)
    IN  IF ~auth.next THEN {GateDenied("get", auth)}
        ELSE IF rows = {}
        THEN {Res("get", 404, "Comic not found", auth.ctx, Queries(1), NoOut)}
        ELSE {Res("get", 200, "", auth.ctx, Queries(1), FullComic(row)) : row \in rows}

ComicsGet(header, idParam) ==
    /\ \E r \in GetResults(header, idParam) : resp' = Brief(r, idParam)
    /\ UNCHANGED <<env, now, users, nextUserId, plain, issued, comics, nextComicId, files, pc, loc>>

(***************************************************************************)
(* POST /api/comics                                                        *)
(***************************************************************************)
ComicFields == {"title", "category", "sourceType", "characterNames", "originalImage", "panels"}

\* a body: the fields it defines (has) and their values
ComicBody(has, title, category, sourceType, characterNames, originalImage, panels) ==
    [has |-> has, title |-> title, category |-> category, sourceType |-> sourceType,
     characterNames |-> characterNames, originalImage |-> originalImage, panels |-> panels]

\* !field: undefined or an empty string (arrays and objects are truthy)
FalsyField(body, f) ==
    \/ f \notin body.has
    \/ f = "title" /\ body.title = ""
    \/ f = "category" /\ body.category = ""
    \/ f = "sourceType" /\ body.sourceType = ""
    \/ f = "originalImage" /\ body.originalImage = <<>>

CreateBodies ==
    { ComicBody(ComicFields, "T1", "Adventure", "AI", <<"Hero">>, ImgRelative, FivePanels),
      ComicBody(ComicFields \ {"title"}, "", "Adventure", "AI", <<"Hero">>, ImgRelative, FivePanels),
      ComicBody(ComicFields, "T1", "Adventure", "Photo", <<"Hero">>, ImgRelative, FivePanels) }

CreateResult(header, body) ==
    LET auth == AuthenticateToken(header)
        comicId == nextComicId
        row == [id |-> comicId, user_id |-> MySqlToNumber(auth.ctx.userId),
                title |-> body.title, category |-> body.category,
                source_type |-> body.sourceType,
                character_names |-> JsonStringify(body.characterNames),
                original_image |-> body.originalImage,
                panels |-> JsonStringify(body.panels),
                created_at |-> now, updated_at |-> now]
    IN  IF ~auth.next
        THEN [res |-> GateDenied("create", auth), comics |-> comics, nextComicId |-> nextComicId]
        ELSE IF \E f \in ComicFields : FalsyField(body, f)
        THEN [res |-> Res("create", 400, "Missing required fields", auth.ctx, NoEffects, NoOut),
              comics |-> comics, nextComicId |-> nextComicId]
        ELSE IF body.sourceType \notin SourceTypes
        THEN \* the ENUM column refuses the value: the error is caught at line 170
             [res |-> Res("create", 500, "Failed to create comic", auth.ctx, Queries(1), NoOut),
              comics |-> comics, nextComicId |-> nextComicId]
        ELSE [res |-> Res("create", 201, "", auth.ctx, Queries(1),
                          [id |-> ToStr(comicId), title |-> body.title, category |-> body.category,
                           sourceType |-> body.sourceType, characterNames |-> body.characterNames,
                           originalImage |-> body.originalImage, panels |-> body.panels]),
              comics |-> comics \cup {row}, nextComicId |-> nextComicId + 1]

ComicsCreate(header, body) ==
    /\ nextComicId <= MaxComics
    /\ LET r == CreateResult(header, body)
       IN  /\ resp' = Brief(r.res, NoId)
           /\ comics' = r.comics
           /\ nextComicId' = r.nextComicId
    /\ UNCHANGED <<env, now, users, nextUserId, plain, issued, files, pc, loc>>

(***************************************************************************)
(* DELETE /api/comics/:id                                                  *)
(***************************************************************************)
\* DELETE FROM comics WHERE id = ? AND user_id = ?
DeleteRowsMutNoOwner(idParam, userId) ==
    LET id == MySqlToNumber(idParam)
    IN  {c \in comics : c.id = id}

DeleteRows(idParam, userId) == RowsOf(idParam, userId)

DeleteResultMutKeepsRows(header, idParam) ==
    LET auth == AuthenticateToken(header)
        affected == DeleteRows(idParam, auth.ctx.userId)
    IN  IF ~auth.next THEN [res |-> GateDenied("delete", auth), comics |-> comics]
        ELSE IF affected = {}
        THEN [res |-> Res("delete", 404, "Comic not found", auth.ctx, Queries(1), NoOut),
              comics |-> comics]
        ELSE [res |-> Res("delete", 204, "", auth.ctx, Queries(1), NoOut),
              comics |-> comics]

DeleteResult(header, idParam) ==
    LET auth == AuthenticateToken(header)
        affected == DeleteRows(idParam, auth.ctx.userId)
    IN  IF ~auth.next THEN [res |-> GateDenied("delete", auth), comics |-> comics]
        ELSE IF affected = {}
        THEN [res |-> Res("delete", 404, "Comic not found", auth.ctx, Queries(1), NoOut),
              comics |-> comics]
        ELSE [res |-> Res("delete", 204, "", auth.ctx, Queries(1), NoOut),
              comics |-> comics \ affected]

ComicsDelete(header, idParam) ==
    /\ LET r == DeleteResult(header, idParam)
       IN  /\ resp' = Brief(r.res, idParam)
           /\ comics' = r.comics
    /\ UNCHANGED <<env, now, users, nextUserId, plain, issued, nextComicId, files, pc, loc>>

(***************************************************************************)
(* PUT /api/comics/:id: three statements, with an await before each        *)
(***************************************************************************)
UpdateBodies ==
    { ComicBody({"title"}, "T2", "", "", <<>>, <<>>, <<>>),
      ComicBody({}, "", "", "", <<>>, <<>>, <<>>) }

\* the row after SET <the fields the body defines>, updated_at = NOW()
ApplyUpdateMutAllFields(row, body) ==
    [row EXCEPT
        !.title = body.title,
        !.category = body.category,
        !.source_type = body.sourceType,
        !.character_names = JsonStringify(body.characterNames),
        !.original_image = body.originalImage,
        !.panels = JsonStringify(body.panels),
        !.updated_at = now]

ApplyUpdateMutTakesOwner(row, body) ==
    [row EXCEPT
        !.title = IF "title" \in body.has THEN body.title ELSE @,
        !.user_id = (@ % 2) + 1,
        !.updated_at = now]

ApplyUpdate(row, body) ==
    [row EXCEPT
        !.title = IF "title" \in body.has THEN body.title ELSE @,
        !.category = IF "category" \in body.has THEN body.category ELSE @,
        !.source_type = IF "sourceType" \in body.has THEN body.sourceType ELSE @,
        !.character_names = IF "characterNames" \in body.has
                            THEN JsonStringify(body.characterNames) ELSE @,
        !.original_image = IF "originalImage" \in body.has THEN body.originalImage ELSE @,
        !.panels = IF "panels" \in body.has THEN JsonStringify(body.panels) ELSE @,
        !.updated_at = now]

\* SELECT id FROM comics WHERE id = ? AND user_id = ?
PutExisting(idParam, userId) == RowsOf(idParam, userId)

\* lines 230-277: the ownership check and the SET list; status 0 when the
\* handler goes on to the UPDATE
PutSelectResult(header, idParam, body) ==
    LET auth == AuthenticateToken(header)
    IN  IF ~auth.next THEN GateDenied("put", auth)
        ELSE IF PutExisting(idParam, auth.ctx.userId) = {}
        THEN Res("put", 404, "Comic not found", auth.ctx, Queries(1), NoOut)
        ELSE IF body.has \cap ComicFields = {}
        THEN Res("put", 400, "No fields to update", auth.ctx, Queries(1), NoOut)
        ELSE Res("put", 0, "", auth.ctx, Queries(1), NoOut)

\* lines 279-282: UPDATE comics SET ... WHERE id = ? AND user_id = ?
PutUpdateResult(l) ==
    LET target == RowsOf(l.id, l.ctx.userId)
    IN  IF "sourceType" \in l.body.has /\ l.body.sourceType \notin SourceTypes /\ target # {}
        THEN \* the ENUM column refuses the value: the error is caught at line 342
             [res |-> Res("put", 500, "Failed to update comic", l.ctx, Queries(2), NoOut),
              comics |-> comics]
        ELSE [res |-> Res("put", 0, "", l.ctx, Queries(2), NoOut),
              comics |-> (comics \ target) \cup {ApplyUpdate(c, l.body) : c \in target}]

\* lines 284-345: SELECT the row again and answer with it; with no row,
\* rows[0] is undefined and the TypeError is caught at line 342
PutFetchResults(l) ==
    LET rows == RowsOf(l.id, l.ctx.userId)
    IN  IF rows = {}
        THEN {Res("put", 500, "Failed to update comic", l.ctx, Queries(3), NoOut)}
        ELSE {Res("put", 200, "", l.ctx, Queries(3), FullComic(row)) : row \in rows}

PutSelect(s, header, idParam, body) ==
    /\ pc[s] = "idle"
    /\ LET r == PutSelectResult(header, idParam, body)
       IN  IF r.status = 0
           THEN /\ pc' = [pc EXCEPT ![s] = "put_update"]
                /\ loc' = [loc EXCEPT ![s] = [ctx |-> r.ctx, id |-> idParam, body |-> body]]
                /\ UNCHANGED resp
           ELSE /\ resp' = Brief(r, idParam)
                /\ UNCHANGED <<pc, loc>>
    /\ UNCHANGED <<env, now, users, nextUserId, plain, issued, comics, nextComicId, files>>

PutUpdate(s) ==
    /\ pc[s] = "put_update"
    /\ LET r == PutUpdateResult(loc[s])
       IN  /\ comics' = r.comics
           /\ IF r.res.status = 0
              THEN /\ pc' = [pc EXCEPT ![s] = "put_fetch"]
                   /\ UNCHANGED <<loc, resp>>
              ELSE /\ resp' = Brief(r.res, loc[s].id)
                   /\ pc' = [pc EXCEPT ![s] = "idle"]
                   /\ loc' = [loc EXCEPT ![s] = Idle]
    /\ UNCHANGED <<env, now, users, nextUserId, plain, issued, nextComicId, files>>

PutFetch(s) ==
    /\ pc[s] = "put_fetch"
    /\ \E r \in PutFetchResults(loc[s]) : resp' = Brief(r, loc[s].id)
    /\ pc' = [pc EXCEPT ![s] = "idle"]
    /\ loc' = [loc EXCEPT ![s] = Idle]
    /\ UNCHANGED <<env, now, users, nextUserId, plain, issued, comics, nextComicId, files>>

(***************************************************************************)
(* POST /api/comics/generate, with services/gemini                         *)
(***************************************************************************)
\* characterNames as the body gives it: an array of names, or a string
Names(kind, items) == [kind |-> kind, items |-> items]

\* an entry of the array that is a JSON number (7), not a string
NumberName == "<number 7>"

GenerateFields == {"category", "sourceType", "imageBase64", "characterNames"}

GenerateBody(has, characterNames) ==
    [has |-> has, category |-> "Adventure", sourceType |-> "AI",
     imageBase64 |-> DataImagePrefix \o <<"o">>, characterNames |-> characterNames]

GenerateBodies ==
    { GenerateBody(GenerateFields, Names("array", <<"Hero">>)),
      GenerateBody(GenerateFields \ {"characterNames"}, Names("array", <<>>)),
      GenerateBody(GenerateFields, Names("string", <<"Hero">>)),
      GenerateBody(GenerateFields, Names("array", <<>>)),
      GenerateBody(GenerateFields, Names("array", <<"">>)),
      GenerateBody(GenerateFields, Names("array", <<"", "Bob">>)),
      GenerateBody(GenerateFields, Names("array", <<NumberName>>)),
      GenerateBody(GenerateFields \ {"category"}, Names("array", <<"Hero">>)) }

\* the names of the body that are not empty
NonEmptyNames(body) ==
    IF "characterNames" \in body.has /\ body.characterNames.kind = "array"
    THEN {k \in 1..Len(body.characterNames.items) : body.characterNames.items[k] # ""}
    ELSE {}

\* lines 181-187: the message of the 400, "" when the body passes
GenerateValidationMutLengthOnly(body) ==
    IF \/ GenerateFields \ body.has # {}
       \/ body.category = "" \/ body.sourceType = "" \/ body.imageBase64 = <<>>
       \/ body.characterNames.kind # "array"
    THEN "Missing required fields"
    ELSE IF Len(body.characterNames.items) = 0
    THEN "At least one character name is required"
    ELSE ""

GenerateValidation(body) ==
    IF \/ GenerateFields \ body.has # {}
       \/ body.category = "" \/ body.sourceType = "" \/ body.imageBase64 = <<>>
       \/ body.characterNames.kind # "array"
    THEN "Missing required fields"
    ELSE IF Len(body.characterNames.items) = 0 \/ body.characterNames.items[1] = ""
    THEN "At least one character name is required"
    ELSE ""

\* getAiClient: throws when process.env.API_KEY is not set
ApiKeyMissing == "API Key is missing. Please check your environment variables."

\* what the provider answers a script request with
ScriptOutcomes == {"script", "no text", "throws"}

ScriptPanels == [b \in Boxes |-> [scene |-> "s", narration |-> "n"]]

\* what the provider answers the image request of panel i with: an image of
\* its own, an image equal to another panel's, no image, an error
ImageOutcomes(i) ==
    { [kind |-> "image", data |-> <<"g">> \o ToStr(i)], [kind |-> "image", data |-> <<"g", "0">>],
      [kind |-> "none", data |-> <<>>], [kind |-> "throws", data |-> <<>>] }

DataPngPrefix == DataImagePrefix \o <<"p", "n", "g", ";", "b", "a", "s", "e", "6", "4", ",">>

\* generatePanelImage, lines 472-510: the data URL of the provider's image,
\* the original image when there is none or the provider threw
GeneratePanelImageMutNoFallback(originalImageBase64, outcome) ==
    IF outcome.kind = "image"
    THEN [ok |-> TRUE, url |-> DataPngPrefix \o outcome.data]
    ELSE [ok |-> FALSE, url |-> <<>>]

GeneratePanelImage(originalImageBase64, outcome) ==
    IF outcome.kind = "image"
    THEN [ok |-> TRUE, url |-> DataPngPrefix \o outcome.data]
    ELSE [ok |-> FALSE, url |-> originalImageBase64]

Pending == [ok |-> FALSE, url |-> <<"<pending>">>]

\* lines 209-215
PanelsWithImagesMutFirstImageTwice(panels, imgs) ==
    [b \in Boxes |->
        [scene |-> panels[b].scene, narration |-> panels[b].narration,
         imageUrl |-> imgs[IF b = BoxOf(2) THEN 1 ELSE CHOOSE i \in 1..5 : BoxOf(i) = b].url]]

PanelsWithImages(panels, imgs) ==
    [b \in Boxes |->
        [scene |-> panels[b].scene, narration |-> panels[b].narration,
         imageUrl |-> imgs[CHOOSE i \in 1..5 : BoxOf(i) = b].url]]

\* up to the call of generateComicScript; status 0 when the script is awaited
GenerateStartResult(header, body) ==
    LET auth == AuthenticateToken(header)
    IN  IF ~auth.next THEN GateDenied("generate", auth)
        ELSE IF GenerateValidation(body) # ""
        THEN Res("generate", 400, GenerateValidation(body), auth.ctx, NoEffects, NoOut)
        ELSE IF env.API_KEY = Unset
        THEN Res("generate", 500, ApiKeyMissing, auth.ctx, NoEffects, NoOut)
        ELSE Res("generate", 0, "", auth.ctx, Effects(0, 0, 1, 0, 0), NoOut)

GenerateScriptResultMutImagesAfterFailure(l, outcome) ==
    Res("generate", 0, "", l.ctx, Effects(0, 0, 1, 5, 0), NoOut)

\* the script arrives: lines 350-361 of the client, then the five calls of
\* generatePanelImage; status 0 when the images are awaited
GenerateScriptResult(l, outcome) ==
    IF outcome = "throws"
    THEN Res("generate", 500, "provider error", l.ctx, l.did, NoOut)
    ELSE IF outcome = "no text"
    THEN \* JSON.parse("{}"): panels.box1 is undefined
         Res("generate", 500, "Cannot read properties of undefined (reading 'scene')",
             l.ctx, l.did, NoOut)
    ELSE IF \E k \in 1..Len(l.body.characterNames.items) :
                l.body.characterNames.items[k] = NumberName
    THEN \* enhanceSceneWithCharacters runs before the try of generatePanelImage:
         \* each of the five calls rejects, no request goes to the provider
         Res("generate", 500, "desc.name.toLowerCase is not a function",
             l.ctx, l.did, NoOut)
    ELSE Res("generate", 0, "", l.ctx, Effects(0, 0, 1, 5, 0), NoOut)

\* Promise.all has resolved: lines 206-220
GenerateJoinResult(l) ==
    Res("generate", 200, "", l.ctx, l.did,
        [title |-> l.title, panels |-> PanelsWithImages(l.panels, l.imgs)])

GenerateStart(s, header, body) ==
    /\ pc[s] = "idle"
    /\ LET r == GenerateStartResult(header, body)
       IN  IF r.status = 0
           THEN /\ pc' = [pc EXCEPT ![s] = "gen_script"]
                /\ loc' = [loc EXCEPT ![s] = [ctx |-> r.ctx, did |-> r.did, body |-> body]]
                /\ UNCHANGED resp
           ELSE /\ resp' = Brief(r, NoId)
                /\ UNCHANGED <<pc, loc>>
    /\ UNCHANGED <<env, now, users, nextUserId, plain, issued, comics, nextComicId, files>>

GenerateScriptReturn(s, outcome) ==
    /\ pc[s] = "gen_script"
    /\ LET r == GenerateScriptResult(loc[s], outcome)
       IN  IF r.status = 0
           THEN /\ pc' = [pc EXCEPT ![s] = "gen_images"]
                /\ loc' = [loc EXCEPT ![s] =
                             [ctx |-> r.ctx, did |-> r.did, body |-> loc[s].body,
                              title |-> "A Tale", panels |-> ScriptPanels,
                              imgs |-> [i \in 1..5 |-> Pending], outOfOrder |-> FALSE,
                              threw |-> {}]]
                /\ UNCHANGED resp
           ELSE /\ resp' = Brief(r, NoId)
                /\ pc' = [pc EXCEPT ![s] = "idle"]
                /\ loc' = [loc EXCEPT ![s] = Idle]
    /\ UNCHANGED <<env, now, users, nextUserId, plain, issued, comics, nextComicId, files>>

\* the image request of panel i completes, in whatever order
GeneratePanelReturn(s, i, outcome) ==
    /\ pc[s] = "gen_images"
    /\ loc[s].imgs[i] = Pending
    /\ loc' = [loc EXCEPT ![s].imgs[i] = GeneratePanelImage(loc[s].body.imageBase64, outcome),
                          ![s].outOfOrder = @ \/ \E j \in 1..(i - 1) : loc[s].imgs[j] = Pending,
                          ![s].threw = IF outcome.kind = "throws" THEN @ \cup {i} ELSE @]
    /\ UNCHANGED <<env, now, users, nextUserId, plain, issued, comics, nextComicId, files, pc, resp>>

GenerateJoin(s) ==
    /\ pc[s] = "gen_images"
    /\ \A i \in 1..5 : loc[s].imgs[i] # Pending
    /\ resp' = Brief(GenerateJoinResult(loc[s]), NoId)
    /\ pc' = [pc EXCEPT ![s] = "idle"]
    /\ loc' = [loc EXCEPT ![s] = Idle]
    /\ UNCHANGED <<env, now, users, nextUserId, plain, issued, comics, nextComicId, files>>

(***************************************************************************)
(* The image store (services/imageUpload)                                  *)
(***************************************************************************)
\* A string that names a file is a sequence of tokens, "/" among them; a
\* path is the sequence of its segments, from the uploads folder.

\* str.split('/')
RECURSIVE SplitPath(_)
SplitPath(str) ==
    IF \A k \in 1..Len(str) : str[k] # "/" THEN <<str>>
    ELSE LET k == CHOOSE n \in 1..Len(str) : str[n] = "/" /\ \A m \in 1..(n - 1) : str[m] # "/"
         IN  <<SubSeq(str, 1, k - 1)>> \o SplitPath(SubSeq(str, k + 1, Len(str)))

\* path.join(UPLOADS_DIR, ...): "." and empty segments dropped, ".." resolved
RECURSIVE Normalize(_, _)
Normalize(done, rest) ==
    IF rest = <<>> THEN done
    ELSE IF Head(rest) = <<>> \/ Head(rest) = <<".">> THEN Normalize(done, Tail(rest))
    ELSE IF Head(rest) = <<"..">> /\ done # <<>> /\ done[Len(done)] # <<"..">>
    THEN Normalize(SubSeq(done, 1, Len(done) - 1), Tail(rest))
    ELSE Normalize(Append(done, Head(rest)), Tail(rest))

PathJoin(str) == Normalize(<<>>, SplitPath(str))

\* detectMimeType and getExtensionFromMimeType
Extension(imageData) ==
    IF \/ StartsWith(imageData, DataImagePrefix \o <<"j", "p", "e", "g">>)
       \/ StartsWith(imageData, DataImagePrefix \o <<"j", "p", "g">>)
    THEN "jpg"
    ELSE IF StartsWith(imageData, DataImagePrefix \o <<"w", "e", "b", "p">>) THEN "webp"
    ELSE "png"

\* isBase64Image
IsBase64Image(str) ==
    StartsWith(str, DataImagePrefix) \/ (Len(str) > 100 /\ ~StartsWith(str, HttpPrefix))

\* randomUUID().split('-')[0]
Uuids == {"u1", "u2"}

\* lines 76-83: the file name; Date.now() in milliseconds
FinalFileName(imageData, fileName, uniqueId) ==
    (IF fileName # <<>> THEN fileName ELSE <<"image">>)
        \o <<"-", uniqueId, "-">> \o ToStr(GetTime(now)) \o <<".", Extension(imageData)>>

\* uploadImage: the path returned, the file written, whether fs.writeFile
\* found the folder
UploadImage(imageData, fileName, uniqueId) ==
    LET imagePath == <<"images", "/">> \o FinalFileName(imageData, fileName, uniqueId)
        file == PathJoin(imagePath)
    \* the folders that exist: uploads, uploads/images, the backend root
    IN  [imagePath |-> imagePath, file |-> file,
         written |-> SubSeq(file, 1, Len(file) - 1) \in {<<>>, <<<<"images">>>>, <<<<"..">>>>}]

(***************************************************************************)
(* POST /api/images/upload, /upload-multiple, DELETE /api/images/:path     *)
(***************************************************************************)
\* req.body: imageBase64 and fileName, "" for a fileName that is not sent
UploadBodies ==
    { [imageBase64 |-> DataImagePrefix \o <<"o">>, fileName |-> <<>>],
      [imageBase64 |-> <<"x">>, fileName |-> <<>>],
      [imageBase64 |-> <<>>, fileName |-> <<>>] }

UploadResult(header, body, uniqueId) ==
    LET auth == AuthenticateToken(header)
        up == UploadImage(body.imageBase64, body.fileName, uniqueId)
    IN  IF ~auth.next THEN [res |-> GateDenied("upload", auth), files |-> files]
        ELSE IF body.imageBase64 = <<>>
        THEN [res |-> Res("upload", 400, "imageBase64 is required", auth.ctx, NoEffects, NoOut),
              files |-> files]
        ELSE IF ~IsBase64Image(body.imageBase64)
        THEN [res |-> Res("upload", 400, "Invalid base64 image format", auth.ctx, NoEffects, NoOut),
              files |-> files]
        ELSE IF ~up.written
        THEN [res |-> Res("upload", 500, "Failed to upload image", auth.ctx, NoEffects, NoOut),
              files |-> files]
        ELSE [res |-> Res("upload", 200, "", auth.ctx, Effects(0, 1, 0, 0, 0),
                          [imagePath |-> up.imagePath,
                           imageUrl |-> UploadsPrefix \o <<"/">> \o up.imagePath]),
              files |-> files \cup {up.file}]

ImagesUpload(header, body, uniqueId) ==
    /\ Cardinality(files) < MaxFiles
    /\ LET r == UploadResult(header, body, uniqueId)
       IN  /\ resp' = Brief(r.res, NoId)
           /\ files' = r.files
    /\ UNCHANGED <<env, now, users, nextUserId, plain, issued, comics, nextComicId, pc, loc>>

\* Every image of the array is taken up at once; an image that is refused
\* rejects Promise.all, the others are written all the same.
UploadMultipleResult(header, images, uniqueId) ==
    LET auth == AuthenticateToken(header)
        valid == {k \in 1..Len(images) : IsBase64Image(images[k].imageBase64)}
        up == [k \in 1..Len(images) |->
                  UploadImage(images[k].imageBase64, images[k].fileName, uniqueId[k])]
        written == {k \in valid : up[k].written}
    IN  IF ~auth.next THEN [res |-> GateDenied("upload-multiple", auth), files |-> files]
        ELSE IF Len(images) = 0
        THEN [res |-> Res("upload-multiple", 400, "images array is required",
                          auth.ctx, NoEffects, NoOut),
              files |-> files]
        ELSE IF valid # 1..Len(images)
        THEN [res |-> Res("upload-multiple", 500, "Invalid base64 image format", auth.ctx,
                          Effects(0, Cardinality(written), 0, 0, 0), NoOut),
              files |-> files \cup {up[k].file : k \in written}]
        ELSE IF written # valid
        THEN [res |-> Res("upload-multiple", 500, "ENOENT: no such file or directory", auth.ctx,
                          Effects(0, Cardinality(written), 0, 0, 0), NoOut),
              files |-> files \cup {up[k].file : k \in written}]
        ELSE [res |-> Res("upload-multiple", 200, "", auth.ctx,
                          Effects(0, Cardinality(written), 0, 0, 0),
                          [k \in 1..Len(images) |->
                              [imagePath |-> up[k].imagePath,
                               imageUrl |-> UploadsPrefix \o <<"/">> \o up[k].imagePath]]),
              files |-> files \cup {up[k].file : k \in written}]

ImagesUploadMultiple(header, images, uniqueId) ==
    /\ Cardinality(files) + Len(images) <= MaxFiles
    /\ LET r == UploadMultipleResult(header, images, uniqueId)
       IN  /\ resp' = Brief(r.res, NoId)
           /\ files' = r.files
    /\ UNCHANGED <<env, now, users, nextUserId, plain, issued, comics, nextComicId, pc, loc>>

\* decodeURIComponent: "%2F" is "/", a lone "%" is malformed (URIError)
Malformed(param) == \E k \in 1..Len(param) : param[k] = "%"
DecodeURIComponent(param) == [k \in 1..Len(param) |-> IF param[k] = "%2F" THEN "/" ELSE param[k]]

\* deleteImage: fs.unlink, its error swallowed
ImagesDeleteResult(header, param) ==
    LET auth == AuthenticateToken(header)
    IN  IF ~auth.next THEN [res |-> GateDenied("images-delete", auth), files |-> files]
        ELSE IF Malformed(param)
        THEN [res |-> Res("images-delete", 500, "Failed to delete image", auth.ctx, NoEffects, NoOut),
              files |-> files]
        ELSE [res |-> Res("images-delete", 204, "", auth.ctx, Effects(0, 1, 0, 0, 0), NoOut),
              files |-> files \ {PathJoin(DecodeURIComponent(param))}]

ImagesDelete(header, param) ==
    /\ LET r == ImagesDeleteResult(header, param)
       IN  /\ resp' = Brief(r.res, NoId)
           /\ files' = r.files
    /\ UNCHANGED <<env, now, users, nextUserId, plain, issued, comics, nextComicId, pc, loc>>

(***************************************************************************)
(* POST /api/image-editor/edit                                             *)
(***************************************************************************)
EditBodies ==
    { [imageBase64 |-> DataImagePrefix \o <<"o">>, prompt |-> "brighter"],
      [imageBase64 |-> DataImagePrefix \o <<"o">>, prompt |-> ""] }

\* what the provider answers the edit request with
EditOutcomes ==
    { [kind |-> "image", data |-> <<"e">>], [kind |-> "none", data |-> <<>>],
      [kind |-> "throws", data |-> <<>>] }

\* The handler touches nothing but the request; the provider's answer decides
\* the response.
EditResultMutFallback(header, body, outcome) ==
    LET auth == AuthenticateToken(header)
    IN  IF ~auth.next THEN GateDenied("edit", auth)
        ELSE IF body.imageBase64 = <<>> \/ body.prompt = ""
        THEN Res("edit", 400, "Image and prompt are required", auth.ctx, NoEffects, NoOut)
        ELSE IF env.API_KEY = Unset
        THEN Res("edit", 500, ApiKeyMissing, auth.ctx, NoEffects, NoOut)
        ELSE IF outcome.kind # "image"
        THEN Res("edit", 200, "", auth.ctx, Effects(0, 0, 0, 0, 1),
                 [imageUrl |-> body.imageBase64])
        ELSE Res("edit", 200, "", auth.ctx, Effects(0, 0, 0, 0, 1),
                 [imageUrl |-> DataPngPrefix \o outcome.data])

EditResult(header, body, outcome) ==
    LET auth == AuthenticateToken(header)
    IN  IF ~auth.next THEN GateDenied("edit", auth)
        ELSE IF body.imageBase64 = <<>> \/ body.prompt = ""
        THEN Res("edit", 400, "Image and prompt are required", auth.ctx, NoEffects, NoOut)
        ELSE IF env.API_KEY = Unset
        THEN Res("edit", 500, ApiKeyMissing, auth.ctx, NoEffects, NoOut)
        ELSE IF outcome.kind = "throws"
        THEN Res("edit", 500, "provider error", auth.ctx, Effects(0, 0, 0, 0, 1), NoOut)
        ELSE IF outcome.kind = "none"
        THEN Res("edit", 500, "No image data returned from Gemini.", auth.ctx,
                 Effects(0, 0, 0, 0, 1), NoOut)
        ELSE Res("edit", 200, "", auth.ctx, Effects(0, 0, 0, 0, 1),
                 [imageUrl |-> DataPngPrefix \o outcome.data])

EditorEdit(header, body, outcome) ==
    /\ resp' = Brief(EditResult(header, body, outcome), NoId)
    /\ UNCHANGED <<env, now, users, nextUserId, plain, issued, comics, nextComicId, files, pc, loc>>

(***************************************************************************)
(* The auth router on an empty database                                    *)
(***************************************************************************)
Env(secret, apiKey) == [JWT_SECRET |-> secret, API_KEY |-> apiKey]

InitAuth ==
    /\ env \in {Env(ServerKey, "key"), Env(Unset, "key")}
    /\ now = 0
    /\ users = {}
    /\ nextUserId = 1
    /\ plain = {}
    /\ issued = {}
    /\ comics = {}
    /\ nextComicId = 1
    /\ files = {}
    /\ pc = [s \in Slots |-> "idle"]
    /\ loc = [s \in Slots |-> Idle]
    /\ resp = NoResp

NextAuth ==
    \/ \E s \in Slots, body \in RegisterBodies : RegisterCheck(s, body)
    \/ \E s \in Slots : RegisterInsert(s)
    \/ \E body \in LoginBodies : Login(body)
    \/ \E header \in Headers : Me(header)
    \/ Tick(ExpiresInDays)

SpecAuth == InitAuth /\ [][NextAuth]_vars

(***************************************************************************)
(* The comics router, for two registered users: Ann holds a token that has *)
(* expired and one that has not, Bob one that has not                      *)
(***************************************************************************)
Ann == [id |-> 1, email |-> "ann@x", name |-> "Ann", phone |-> "<null>",
        password_hash |-> BcryptHash(Pw1, "salt")]
Bob == [id |-> 2, email |-> "bob@x", name |-> "Bob", phone |-> "555",
        password_hash |-> BcryptHash(Pw2, "salt")]

\* the token a login of the user once returned, by its expiry
TokenOf(user, exp) == [userId |-> ToStr(user.id), email |-> user.email, exp |-> exp, key |-> ServerKey]

InitComics ==
    /\ env = Env(ServerKey, "key")
    /\ now = 0
    /\ users = {Ann, Bob}
    /\ nextUserId = 3
    /\ plain = {<<1, Pw1>>, <<2, Pw2>>}
    /\ issued = {TokenOf(Ann, 0), TokenOf(Ann, 2 * ExpiresInDays), TokenOf(Bob, 2 * ExpiresInDays)}
    /\ comics = {}
    /\ nextComicId = 1
    /\ files = {}
    /\ pc = [s \in Slots |-> "idle"]
    /\ loc = [s \in Slots |-> Idle]
    /\ resp = NoResp

\* the two users, each with the token that has not expired
ComicsCallers == {Bearer(TokenOf(Ann, 2 * ExpiresInDays)), Bearer(TokenOf(Bob, 2 * ExpiresInDays))}

\* :id as a client may write it; MySQL reads "1x" as 1
IdParams == {<<"1">>, <<"2">>}
GetIdParams == IdParams \cup {<<"1", "x">>}

NextComics ==
    \/ \E header \in ComicsCallers : ComicsList(header)
    \/ \E header \in ComicsCallers, idParam \in GetIdParams : ComicsGet(header, idParam)
    \/ \E header \in ComicsCallers, body \in CreateBodies : ComicsCreate(header, body)
    \/ \E header \in ComicsCallers, idParam \in IdParams : ComicsDelete(header, idParam)
    \/ \E header \in ComicsCallers, idParam \in IdParams, body \in UpdateBodies :
         PutSelect("s1", header, idParam, body)
    \/ PutUpdate("s1")
    \/ PutFetch("s1")
    \/ Tick(ExpiresInDays)

SpecComics == InitComics /\ [][NextComics]_vars

(***************************************************************************)
(* One owner creating, updating and deleting her comics, requests          *)
(* overlapping                                                             *)
(***************************************************************************)
\* bodies of PUT /:id: a title; a category and panels; a sourceType the
\* column does not have; no field
OwnerUpdateBodies ==
    { ComicBody({"title"}, "T2", "", "", <<>>, <<>>, <<>>),
      ComicBody({"category", "panels"}, "", "Drama", "", <<>>, <<>>,
                [b \in {BoxOf(1)} |-> Panel("s2", PanelImg)]),
      ComicBody({"sourceType"}, "", "", "Photo", <<>>, <<>>, <<>>),
      ComicBody({}, "", "", "", <<>>, <<>>, <<>>) }

NextOwner ==
    \* bodies of POST /: the six fields, panels the five boxes or box1 alone
    \/ \E panels \in {FivePanels, [b \in {BoxOf(1)} |-> Panel("s", PanelImg)]} :
         ComicsCreate(Bearer(TokenOf(Ann, 2 * ExpiresInDays)),
                      ComicBody(ComicFields, "T1", "Adventure", "AI", <<"Hero">>, ImgRelative, panels))
    \/ ComicsGet(Bearer(TokenOf(Ann, 2 * ExpiresInDays)), <<"1">>)
    \/ ComicsDelete(Bearer(TokenOf(Ann, 2 * ExpiresInDays)), <<"1">>)
    \/ \E s \in Slots, body \in OwnerUpdateBodies :
         PutSelect(s, Bearer(TokenOf(Ann, 2 * ExpiresInDays)), <<"1">>, body)
    \/ \E s \in Slots : PutUpdate(s)
    \/ \E s \in Slots : PutFetch(s)

SpecOwner == InitComics /\ [][NextOwner]_vars

(***************************************************************************)
(* One generate request at a time, the provider answering as it may        *)
(***************************************************************************)
(***************************************************************************)
(* One owner storing comics whose images are written in the forms a        *)
(* client may send, and reading them back                                  *)
(***************************************************************************)
\* image values of a POST body: a relative path, a path under /uploads, an
\* http URL, a data:image URI, a data URI of another media type, a relative
\* path whose first folder begins with the letters http
StoredImages ==
    { ImgRelative, UploadsPrefix \o <<"/", "a">>, HttpPrefix \o <<"s", ":", "/", "/", "h">>,
      DataImagePrefix \o <<"p", "n", "g">>, <<"d", "a", "t", "a", ":", "t", "e", "x", "t">>,
      HttpPrefix \o <<"d", "o", "c", "s", "/", "a">> }

NextUrls ==
    \/ \E image \in StoredImages : \E panelImage \in {image, <<>>} :
         ComicsCreate(Bearer(TokenOf(Ann, 2 * ExpiresInDays)),
                      ComicBody(ComicFields, "T1", "Adventure", "AI", <<"Hero">>, image,
                                [FivePanels EXCEPT ![BoxOf(1)] = Panel("s", panelImage)]))
    \/ \E header \in ComicsCallers, idParam \in IdParams : ComicsGet(header, idParam)

SpecUrls == InitComics /\ [][NextUrls]_vars

InitGenerate ==
    /\ env \in {Env(ServerKey, "key"), Env(ServerKey, Unset)}
    /\ now = 0
    /\ users = {Ann, Bob}
    /\ nextUserId = 3
    /\ plain = {<<1, Pw1>>, <<2, Pw2>>}
    /\ issued = {TokenOf(Ann, 0), TokenOf(Ann, 2 * ExpiresInDays), TokenOf(Bob, 2 * ExpiresInDays)}
    /\ comics = {}
    /\ nextComicId = 1
    /\ files = {}
    /\ pc = [s \in Slots |-> "idle"]
    /\ loc = [s \in Slots |-> Idle]
    /\ resp = NoResp

NextGenerate ==
    \/ \E header \in {NoHeader, Bearer(TokenOf(Ann, 2 * ExpiresInDays))}, body \in GenerateBodies :
         GenerateStart("s1", header, body)
    \/ \E outcome \in ScriptOutcomes : GenerateScriptReturn("s1", outcome)
    \/ \E i \in 1..5 : \E outcome \in ImageOutcomes(i) : GeneratePanelReturn("s1", i, outcome)
    \/ GenerateJoin("s1")
    \/ \E body \in EditBodies, outcome \in EditOutcomes :
         EditorEdit(Bearer(TokenOf(Ann, 2 * ExpiresInDays)), body, outcome)

SpecGenerate == InitGenerate /\ [][NextGenerate]_vars

(***************************************************************************)
(* Every route behind a bearer token, asked with and without one; the      *)
(* server secret set or not                                                *)
(***************************************************************************)
InitGate ==
    /\ env \in {Env(ServerKey, "key"), Env(Unset, "key")}
    /\ now = 0
    /\ users = {Ann, Bob}
    /\ nextUserId = 3
    /\ plain = {<<1, Pw1>>, <<2, Pw2>>}
    /\ issued = {TokenOf(Ann, 0), TokenOf(Ann, 2 * ExpiresInDays), TokenOf(Bob, 2 * ExpiresInDays)}
    /\ comics = {}
    /\ nextComicId = 1
    /\ files = {}
    /\ pc = [s \in Slots |-> "idle"]
    /\ loc = [s \in Slots |-> Idle]
    /\ resp = NoResp

\* no header, no token, an expired token, a token signed with another key,
\* a token that verifies
GateHeaders ==
    { NoHeader, BearerOnly, Bearer(TokenOf(Ann, 0)), Bearer(TokenOf(Ann, 2 * ExpiresInDays)),
      Bearer([userId |-> <<"1">>, email |-> "ann@x", exp |-> ExpiresInDays, key |-> ForgedKey]) }

FirstCreateBody == ComicBody(ComicFields, "T1", "Adventure", "AI", <<"Hero">>, ImgRelative, FivePanels)
FirstUpdateBody == ComicBody({"title"}, "T2", "", "", <<>>, <<>>, <<>>)
FirstGenerateBody == GenerateBody(GenerateFields, Names("array", <<"Hero">>))
FirstUpload == [imageBase64 |-> DataImagePrefix \o <<"o">>, fileName |-> <<>>]
FirstEdit == [imageBase64 |-> DataImagePrefix \o <<"o">>, prompt |-> "brighter"]
FirstFile == <<"images", "%2F", "image", "-", "u1", "-", "0", ".", "png">>

\* req.params.path as Express hands it over: the path of the first upload,
\* and a path with a "%" that no two hex digits follow
DeleteParams == {FirstFile, <<"images", "/", "%">>}

NextGate ==
    \/ \E header \in GateHeaders : Me(header)
    \/ \E header \in GateHeaders : ComicsList(header)
    \/ \E header \in GateHeaders : ComicsGet(header, <<"1">>)
    \/ \E header \in GateHeaders : ComicsCreate(header, FirstCreateBody)
    \/ \E header \in GateHeaders : ComicsDelete(header, <<"1">>)
    \/ \E header \in GateHeaders : PutSelect("s1", header, <<"1">>, FirstUpdateBody)
    \/ PutUpdate("s1")
    \/ PutFetch("s1")
    \/ \E header \in GateHeaders : GenerateStart("s1", header, FirstGenerateBody)
    \/ \E outcome \in {"script", "throws"} : GenerateScriptReturn("s1", outcome)
    \/ \E i \in 1..5 : /\ pc["s1"] = "gen_images"
                       /\ \A j \in 1..(i - 1) : loc["s1"].imgs[j] # Pending
                       /\ GeneratePanelReturn("s1", i, [kind |-> "image", data |-> <<"g">> \o ToStr(i)])
    \/ GenerateJoin("s1")
    \/ \E header \in GateHeaders : ImagesUpload(header, FirstUpload, "u1")
    \/ \E header \in GateHeaders : ImagesUploadMultiple(header, <<FirstUpload>>, <<"u1">>)
    \/ \E header \in GateHeaders, param \in DeleteParams : ImagesDelete(header, param)
    \/ \E header \in GateHeaders, outcome \in EditOutcomes : EditorEdit(header, FirstEdit, outcome)

SpecGate == InitGate /\ [][NextGate]_vars

(***************************************************************************)
(* The image routes by one caller; on disk, next to the uploads folder,    *)
(* the backend's own files                                                 *)
(***************************************************************************)
\* files are named by their path from the uploads folder: package.json of
\* the backend root is ../package.json
InitImages ==
    /\ env = Env(ServerKey, "key")
    /\ now = 0
    /\ users = {Ann, Bob}
    /\ nextUserId = 3
    /\ plain = {<<1, Pw1>>, <<2, Pw2>>}
    /\ issued = {TokenOf(Ann, 2 * ExpiresInDays)}
    /\ comics = {}
    /\ nextComicId = 1
    /\ files = {PathJoin(<<"..", "/", "package.json">>)}
    /\ pc = [s \in Slots |-> "idle"]
    /\ loc = [s \in Slots |-> Idle]
    /\ resp = NoResp

NextImages ==
    \/ \E body \in UploadBodies, uniqueId \in Uuids :
         ImagesUpload(Bearer(TokenOf(Ann, 2 * ExpiresInDays)), body, uniqueId)
    \* arrays of no, one and two images, the second one refused or not
    \/ \E images \in {<<>>, <<FirstUpload>>, <<[FirstUpload EXCEPT !.imageBase64 = <<"x">>]>>,
                      <<FirstUpload, [FirstUpload EXCEPT !.imageBase64 = <<"x">>]>>,
                      <<FirstUpload, [FirstUpload EXCEPT !.fileName = <<"b">>]>>} :
         ImagesUploadMultiple(Bearer(TokenOf(Ann, 2 * ExpiresInDays)), images, <<"u1", "u2">>)
    \* req.params.path: a path of an upload, written with / or %2F, and paths
    \* that leave the uploads folder
    \/ \E param \in {FirstFile, <<"images", "/", "b", "-", "u2", "-", "0", ".", "png">>,
                     <<"..", "/", "package.json">>,
                     <<"images", "/", "..", "/", "..", "/", "package.json">>} :
         ImagesDelete(Bearer(TokenOf(Ann, 2 * ExpiresInDays)), param)
    \/ Tick(ExpiresInDays)

SpecImages == InitImages /\ [][NextImages]_vars

(***************************************************************************)
(* Properties of the bearer-token gate                                     *)
(***************************************************************************)
HasToken(header) == SplitToken(header) # {}

\* jwt.verify of the token of the header throws
FailsVerification(header) ==
    HasToken(header) /\ ~JwtVerifies(TokenIn(header), env.JWT_SECRET)

\* inputs of the image and image-editor routes
UploadArrays == {<<>>} \cup {<<body>> : body \in UploadBodies}

\* the answers of the protected routes to a request with this header, up to
\* the first await of the handler
ProtectedAnswers(header) ==
    ListResults(header)
      \cup UNION {GetResults(header, idParam) : idParam \in GetIdParams}
      \cup {CreateResult(header, body).res : body \in CreateBodies}
      \cup {DeleteResult(header, idParam).res : idParam \in IdParams}
      \cup {PutSelectResult(header, idParam, body) : idParam \in IdParams, body \in UpdateBodies}
      \cup {GenerateStartResult(header, body) : body \in GenerateBodies}
      \cup {UploadResult(header, body, uniqueId).res : body \in UploadBodies, uniqueId \in Uuids}
      \cup {UploadMultipleResult(header, images, <<uniqueId>>).res :
              images \in UploadArrays, uniqueId \in Uuids}
      \cup {ImagesDeleteResult(header, param).res : param \in DeleteParams}
      \cup {EditResult(header, body, outcome) : body \in EditBodies, outcome \in EditOutcomes}

\* C3 as stated: a request without a bearer token is answered 401, one whose
\* token fails signature or expiry verification is answered 403, neither
\* reaches the handler; next() is called only for a token that verifies, with
\* the user id and email of the token in the request.
C3_GateAnswers401Or403 ==
    \A header \in Headers :
        LET auth == AuthenticateToken(header)
        IN  /\ ~HasToken(header) => (~auth.next /\ auth.status = 401)
            /\ FailsVerification(header) => (~auth.next /\ auth.status = 403)
            /\ auth.next => /\ HasToken(header)
                            /\ ~FailsVerification(header)
                            /\ auth.ctx = Ctx(TokenIn(header).userId, TokenIn(header).email)
            /\ \A r \in ProtectedAnswers(header) : r.ctx.invoked = auth.next

\* C3: a request without a bearer token is answered 401; one with a token is
\* answered 500 when the server has no JWT_SECRET, and otherwise 403 when
\* the token fails signature or expiry verification; none of these reaches
\* the handler. next() is called only for a token that verifies, with the
\* user id and email of the token in the request.
C3_GateAnswers401Or500Or403 ==
    \A header \in Headers :
        LET auth == AuthenticateToken(header)
        IN  /\ ~HasToken(header) => (~auth.next /\ auth.status = 401)
            /\ (HasToken(header) /\ env.JWT_SECRET = Unset) => (~auth.next /\ auth.status = 500)
            /\ (FailsVerification(header) /\ env.JWT_SECRET # Unset)
                 => (~auth.next /\ auth.status = 403)
            /\ auth.next => /\ HasToken(header)
                            /\ ~FailsVerification(header)
                            /\ auth.ctx = Ctx(TokenIn(header).userId, TokenIn(header).email)
            /\ \A r \in ProtectedAnswers(header) : r.ctx.invoked = auth.next

\* the list of comics was asked with a token and refused with 403 by a server
\* that has its secret, while a comic is stored
C3_ListRefusedWith403 ==
    /\ env.JWT_SECRET # Unset
    /\ resp.route = "list"
    /\ resp.status = 403
    /\ resp.error = "Invalid or expired token"
    /\ comics # {}

\* C4: on every route under /api/comics, /api/images and /api/image-editor a
\* request that the middleware did not pass gets its answer without a
\* database query, a file written or deleted, or a call to the generative
\* provider, tables and files are as before; and a handler that waits at an
\* await belongs to a request that passed.
C4_NoWorkBeforeVerification ==
    /\ \A header \in Headers :
         (~HasToken(header) \/ FailsVerification(header)) =>
            /\ \A r \in ProtectedAnswers(header) :
                  r.status \in {401, 403, 500} /\ r.did = NoEffects /\ ~r.ctx.invoked
            /\ \A body \in CreateBodies :
                  /\ CreateResult(header, body).comics = comics
                  /\ CreateResult(header, body).nextComicId = nextComicId
            /\ \A idParam \in IdParams : DeleteResult(header, idParam).comics = comics
            /\ \A body \in UploadBodies, uniqueId \in Uuids :
                  UploadResult(header, body, uniqueId).files = files
            /\ \A images \in UploadArrays, uniqueId \in Uuids :
                  UploadMultipleResult(header, images, <<uniqueId>>).files = files
            /\ \A param \in DeleteParams : ImagesDeleteResult(header, param).files = files
    /\ \A s \in Slots :
         pc[s] # "idle" =>
            \E token \in issued : /\ JwtVerifies(token, env.JWT_SECRET)
                                  /\ loc[s].ctx = Ctx(token.userId, token.email)

\* the deletion of an image was refused by the middleware while a file and a
\* comic are stored
C4_ImageDeleteRefusedFileKept ==
    /\ resp.route = "images-delete"
    /\ resp.status \in {401, 403}
    /\ files # {}
    /\ comics # {}

\* C5: on every endpoint that requires a bearer token, GET /api/auth/me
\* among them, a request without a token is answered 401 and a request with
\* an invalid or expired token is answered 403 (the server has its secret).
C5_NoToken401BadToken403 ==
    [][\A header \in GateHeaders :
          LET Answered(answered) ==
                  (answered /\ env.JWT_SECRET # Unset) =>
                      /\ ~HasToken(header) => resp'.status = 401
                      /\ FailsVerification(header) => resp'.status = 403
          IN  /\ Answered(Me(header))
              /\ Answered(ComicsList(header))
              /\ Answered(ComicsGet(header, <<"1">>))
              /\ Answered(ComicsCreate(header, FirstCreateBody))
              /\ Answered(ComicsDelete(header, <<"1">>))
              /\ Answered(PutSelect("s1", header, <<"1">>, FirstUpdateBody))
              /\ Answered(GenerateStart("s1", header, FirstGenerateBody))
              /\ Answered(ImagesUpload(header, FirstUpload, "u1"))
              /\ Answered(ImagesUploadMultiple(header, <<FirstUpload>>, <<"u1">>))
              /\ Answered(ImagesDelete(header, FirstFile))
              /\ \A outcome \in EditOutcomes : Answered(EditorEdit(header, FirstEdit, outcome))
      ]_vars

\* C14: a DELETE /api/images/:path of an authenticated caller whose path
\* names no stored file is answered 204 and leaves the stored files as they
\* are.
C14_MissingFileDelete204 ==
    [][\A header \in GateHeaders : \A param \in DeleteParams :
          ( /\ ImagesDelete(header, param)
            /\ AuthenticateToken(header).next
            /\ PathJoin(param) \notin files
            /\ ~Malformed(param) => PathJoin(DecodeURIComponent(param)) \notin files )
          => (resp'.status = 204 /\ files' = files)]_vars

(***************************************************************************)
(* Properties of the comics router                                         *)
(***************************************************************************)
\* C1: for every stored comic and every caller whose token verifies and
\* names another user than the comic's owner, GET, PUT and DELETE on the
\* comic's id are each answered 404 'Comic not found', and the table is left
\* as it was.
C1_ForeignComicNotFound ==
    \A c \in comics : \A header \in Headers : \A idParam \in GetIdParams :
        ( /\ AuthenticateToken(header).next
          /\ MySqlToNumber(AuthenticateToken(header).ctx.userId) # c.user_id
          /\ MySqlToNumber(idParam) = c.id )
        => /\ \A r \in GetResults(header, idParam) :
                r.status = 404 /\ r.error = "Comic not found"
           /\ DeleteResult(header, idParam).res.status = 404
           /\ DeleteResult(header, idParam).res.error = "Comic not found"
           /\ DeleteResult(header, idParam).comics = comics
           /\ \A body \in UpdateBodies :
                /\ PutSelectResult(header, idParam, body).status = 404
                /\ PutSelectResult(header, idParam, body).error = "Comic not found"

\* the last response is the 404 of a DELETE on a comic that is stored and
\* belongs to another user than the caller
C1_ForeignDeleteAnswered404 ==
    /\ resp.route = "delete"
    /\ resp.status = 404
    /\ \E c \in comics : /\ c.id = MySqlToNumber(resp.id)
                         /\ c.user_id # MySqlToNumber(resp.userId)

\* C2: the list a caller gets holds one entry for each stored comic whose
\* owner is the caller and no other entry, each entry only id, title,
\* category and createdAt of its comic, later creation times first.
C2_ListOwnNewestFirst ==
    \A header \in Headers : \A r \in ListResults(header) :
        r.status = 200 =>
          LET own == {c \in comics : c.user_id = MySqlToNumber(r.ctx.userId)}
          IN  /\ Len(r.out) = Cardinality(own)
              /\ {r.out[i].id : i \in 1..Len(r.out)} = {ToStr(c.id) : c \in own}
              /\ \A i \in 1..Len(r.out) :
                    /\ DOMAIN r.out[i] = {"id", "title", "category", "createdAt"}
                    /\ \E c \in own : /\ r.out[i].id = ToStr(c.id)
                                      /\ r.out[i].title = c.title
                                      /\ r.out[i].category = c.category
                                      /\ r.out[i].createdAt = GetTime(c.created_at)
              /\ \A i \in 1..Len(r.out) : \A j \in 1..Len(r.out) :
                    i < j => r.out[i].createdAt >= r.out[j].createdAt

\* the last response is a list, given while the table holds a comic of the
\* caller and a comic of another user
C2_ListedWithForeignComicStored ==
    /\ resp.route = "list"
    /\ resp.status = 200
    /\ \E c \in comics : c.user_id = MySqlToNumber(resp.userId)
    /\ \E c \in comics : c.user_id # MySqlToNumber(resp.userId)

\* C15: a POST /api/comics of an authenticated caller that lacks one of the
\* six fields is answered 400 and stores no comic; one that has the six
\* stores exactly one comic, owned by the caller, and is answered 201 with
\* the fields of the body and the id of the new comic.
C15_CreateStoresOneOr400 ==
    [][\A header \in ComicsCallers : \A body \in CreateBodies :
          ComicsCreate(header, body) =>
             IF \E f \in ComicFields : FalsyField(body, f)
             THEN resp'.status = 400 /\ comics' = comics
             ELSE /\ resp'.status = 201
                  /\ \E c \in comics' \ comics :
                        /\ comics' = comics \cup {c}
                        /\ c.user_id = MySqlToNumber(AuthenticateToken(header).ctx.userId)
                        /\ CreateResult(header, body).res.out
                             = [id |-> ToStr(c.id), title |-> body.title,
                                category |-> body.category, sourceType |-> body.sourceType,
                                characterNames |-> body.characterNames,
                                originalImage |-> body.originalImage, panels |-> body.panels]
      ]_vars

\* C16: the UPDATE of a PUT /api/comics/:id changes the addressed comic
\* only, and of it only the fields the body supplies, to the values of the
\* body (the JSON text of them for characterNames and panels), and the
\* update time; id, owner, creation time and every field not supplied keep
\* their values; a body that supplies none of the six fields is answered
\* 400 and changes nothing.
C16_UpdateChangesSuppliedFieldsOnly ==
    [][\A s \in Slots :
          /\ (pc[s] = "put_update" /\ pc'[s] # "put_update")
               => /\ \A d \in comics' : \E c \in comics : c.id = d.id
                  /\ \A c \in comics :
                        \/ c \in comics'
                        \/ /\ c.id = MySqlToNumber(loc[s].id)
                           /\ \E d \in comics' :
                                LET has == loc[s].body.has
                                IN  /\ comics' = (comics \ {c}) \cup {d}
                                    /\ d.id = c.id
                                    /\ d.user_id = c.user_id
                                    /\ d.created_at = c.created_at
                                    /\ d.title = IF "title" \in has
                                                 THEN loc[s].body.title ELSE c.title
                                    /\ d.category = IF "category" \in has
                                                    THEN loc[s].body.category ELSE c.category
                                    /\ d.source_type = IF "sourceType" \in has
                                                       THEN loc[s].body.sourceType
                                                       ELSE c.source_type
                                    /\ d.character_names
                                         = IF "characterNames" \in has
                                           THEN JsonStringify(loc[s].body.characterNames)
                                           ELSE c.character_names
                                    /\ d.original_image = IF "originalImage" \in has
                                                          THEN loc[s].body.originalImage
                                                          ELSE c.original_image
                                    /\ d.panels = IF "panels" \in has
                                                  THEN JsonStringify(loc[s].body.panels)
                                                  ELSE c.panels
          /\ \A body \in OwnerUpdateBodies :
                ( /\ PutSelect(s, Bearer(TokenOf(Ann, 2 * ExpiresInDays)), <<"1">>, body)
                  /\ body.has \cap ComicFields = {}
                  /\ \E c \in comics : c.id = 1 )
                => (resp'.status = 400 /\ comics' = comics /\ pc' = pc)
      ]_vars

\* a PUT has been answered 200 and the comic holds the title of one update,
\* the category of another and the source type it was created with
C16_TwoUpdatesEachItsFields ==
    /\ resp.route = "put"
    /\ resp.status = 200
    /\ \E c \in comics : /\ c.id = 1
                         /\ c.title = "T2"
                         /\ c.category = "Drama"
                         /\ c.source_type = "AI"

\* C17: a DELETE /api/comics/:id is answered 204 exactly when it removes a
\* comic, and it removes the addressed comic of the caller and no other;
\* for an id that was given out and whose comic is gone (ids are given out
\* once, so the comic was deleted) every GET, PUT and DELETE of an
\* authenticated caller is answered 404 'Comic not found'.
C17_DeletedComicStaysGone ==
    /\ \A header \in Headers : \A idParam \in IdParams :
         LET r == DeleteResult(header, idParam)
         IN  /\ r.comics \subseteq comics
             /\ \A c \in comics \ r.comics :
                   /\ c.id = MySqlToNumber(idParam)
                   /\ c.user_id = MySqlToNumber(r.res.ctx.userId)
             /\ r.res.status = 204 <=> r.comics # comics
    /\ \A i \in 1..(nextComicId - 1) :
         (\A c \in comics : c.id # i) =>
            \A header \in Headers : \A idParam \in GetIdParams :
               (AuthenticateToken(header).next /\ MySqlToNumber(idParam) = i) =>
                  /\ \A r \in GetResults(header, idParam) :
                        r.status = 404 /\ r.error = "Comic not found"
                  /\ DeleteResult(header, idParam).res.status = 404
                  /\ DeleteResult(header, idParam).res.error = "Comic not found"
                  /\ \A body \in UpdateBodies :
                        PutSelectResult(header, idParam, body).status = 404

\* a second DELETE of a comic that was deleted has been answered 404 while
\* another comic is still stored
C17_SecondDeleteAnswered404 ==
    /\ resp.route = "delete"
    /\ resp.status = 404
    /\ MySqlToNumber(resp.id) < nextComicId
    /\ \A c \in comics : c.id # MySqlToNumber(resp.id)
    /\ comics # {}

\* C18: whatever the owner's other PUT and DELETE requests on the comic do
\* between its statements, a PUT /api/comics/:id with values the table
\* accepts is answered 200 with the comic, 404 or 400: its UPDATE does not
\* fail and the answer after its second SELECT is one of the three.
C18_OverlappedPutAnswers200Or404Or400 ==
    \A s \in Slots :
        /\ (pc[s] = "put_update" /\ loc[s].body.sourceType \in SourceTypes \cup {""})
             => PutUpdateResult(loc[s]).res.status = 0
        /\ pc[s] = "put_fetch"
             => \A r \in PutFetchResults(loc[s]) :
                   /\ r.status \in {200, 404, 400}
                   /\ r.status = 200 => r.out.id = ToStr(MySqlToNumber(loc[s].id))

\* C19: every stored comic has a panels value that consists of exactly the
\* five panels box1..box5.
C19_StoredPanelsAreFiveBoxes ==
    \A c \in comics : DOMAIN JsonParse(c.panels) = Boxes

\* C20: a comic has one row and so one owner; a comic that appears is the
\* comic of a POST answered 201 in that step and its owner is the user of
\* the token of that request; a comic that stays keeps its owner, whatever
\* the request and whoever sends it.
C20_OwnerSetAtCreateNeverChanged ==
    [][/\ \A c \in comics' : \A d \in comics' : c.id = d.id => c = d
       /\ \A d \in comics' :
             \/ \E c \in comics : c.id = d.id /\ c.user_id = d.user_id
             \/ /\ \A c \in comics : c.id # d.id
                /\ resp'.route = "create"
                /\ resp'.status = 201
                /\ d.user_id = MySqlToNumber(resp'.userId)
                /\ \E u \in users : u.id = d.user_id
      ]_vars

\* a PUT has been answered 200 while comics of both users are stored
C20_UpdatedAmongComicsOfTwoOwners ==
    /\ resp.route = "put"
    /\ resp.status = 200
    /\ \E c \in comics : c.user_id = 1
    /\ \E c \in comics : c.user_id = 2

(***************************************************************************)
(* Properties of the generate handler                                      *)
(***************************************************************************)
\* C9: a generate request whose characterNames holds no non-empty name
\* (missing, not an array, an empty array, an empty first entry) makes no
\* script and no image call to the provider, and an authenticated one is
\* answered 400; the requests whose provider calls are awaited all have a
\* non-empty name.
C9_NoNameNoProviderCall ==
    /\ \A header \in Headers : \A body \in GenerateBodies :
         NonEmptyNames(body) = {} =>
            /\ GenerateStartResult(header, body).did.script = 0
            /\ GenerateStartResult(header, body).did.image = 0
            /\ GenerateStartResult(header, body).status # 0
            /\ AuthenticateToken(header).next => GenerateStartResult(header, body).status = 400
    /\ \A s \in Slots : pc[s] \in {"gen_script", "gen_images"} => NonEmptyNames(loc[s].body) # {}

\* a request whose first name is empty has been answered 400
C9_EmptyFirstNameAnswered400 ==
    /\ resp.route = "generate"
    /\ resp.status = 400
    /\ resp.error = "At least one character name is required"

\* C10 as stated: when the provider has returned an image for each of the
\* five panels, the response carries five image references, pairwise
\* distinct, the image of panel i on box i.
C10_FiveDistinctImagesInOrder ==
    \A s \in Slots :
        ( /\ pc[s] = "gen_images"
          /\ \A i \in 1..5 : loc[s].imgs[i] # Pending
          /\ \A i \in 1..5 : loc[s].imgs[i].ok )
        => /\ GenerateJoinResult(loc[s]).status = 200
           /\ DOMAIN GenerateJoinResult(loc[s]).out.panels = Boxes
           /\ \A i \in 1..5 :
                GenerateJoinResult(loc[s]).out.panels[BoxOf(i)].imageUrl = loc[s].imgs[i].url
           /\ \A i \in 1..5 : \A j \in 1..5 :
                i # j => GenerateJoinResult(loc[s]).out.panels[BoxOf(i)].imageUrl
                           # GenerateJoinResult(loc[s]).out.panels[BoxOf(j)].imageUrl

\* C10, amended: when the provider has returned an image for each of the
\* five panels, the response carries one image reference on each of the five
\* boxes, the image of panel i on box i whatever the order of completion;
\* the five references are pairwise distinct when the five images are.
C10_ImagesOnTheirBoxes ==
    \A s \in Slots :
        ( /\ pc[s] = "gen_images"
          /\ \A i \in 1..5 : loc[s].imgs[i] # Pending
          /\ \A i \in 1..5 : loc[s].imgs[i].ok )
        => /\ GenerateJoinResult(loc[s]).status = 200
           /\ DOMAIN GenerateJoinResult(loc[s]).out.panels = Boxes
           /\ \A i \in 1..5 :
                GenerateJoinResult(loc[s]).out.panels[BoxOf(i)].imageUrl = loc[s].imgs[i].url
           /\ (\A i \in 1..5 : \A j \in 1..5 : i # j => loc[s].imgs[i].url # loc[s].imgs[j].url)
                => Cardinality({GenerateJoinResult(loc[s]).out.panels[b].imageUrl : b \in Boxes}) = 5

\* five images, each its own, have arrived out of order and the handler is
\* about to answer
C10_FiveImagesArrivedOutOfOrder ==
    \E s \in Slots :
        /\ pc[s] = "gen_images"
        /\ \A i \in 1..5 : loc[s].imgs[i] # Pending
        /\ \A i \in 1..5 : loc[s].imgs[i].ok
        /\ loc[s].outOfOrder
        /\ \A i \in 1..5 : \A j \in 1..5 : i # j => loc[s].imgs[i].url # loc[s].imgs[j].url

\* C11: once the script has been generated, a panel image generation that
\* throws does not fail the request: the five generations are awaited, the
\* answer is 200 and the panel whose generation threw carries the original
\* image of the request.
C11_ThrownPanelCarriesOriginal ==
    \A s \in Slots :
        /\ pc[s] = "gen_script" => GenerateScriptResult(loc[s], "script").status = 0
        /\ (pc[s] = "gen_images" /\ \A i \in 1..5 : loc[s].imgs[i] # Pending)
             => /\ GenerateJoinResult(loc[s]).status = 200
                /\ \A i \in loc[s].threw :
                      GenerateJoinResult(loc[s]).out.panels[BoxOf(i)].imageUrl
                          = loc[s].body.imageBase64

\* C12: the handler answers only when each of the five image requests has
\* completed; a request that completes leaves the results of the others as
\* they are; in the answer every panel whose request returned an image
\* carries the data URL of that image, every panel whose request threw or
\* returned no image carries the original image of the request.
C12_JoinAfterAllFiveEachItsOwn ==
    [][\A s \in Slots :
          /\ (pc[s] = "gen_images" /\ pc'[s] = "gen_images")
               => \A j \in 1..5 : loc[s].imgs[j] # Pending => loc'[s].imgs[j] = loc[s].imgs[j]
          /\ (pc[s] = "gen_images" /\ pc'[s] = "idle")
               => /\ \A i \in 1..5 : loc[s].imgs[i] # Pending
                  /\ resp' = Brief(GenerateJoinResult(loc[s]), NoId)
                  /\ resp'.status = 200
                  /\ \A i \in 1..5 :
                        LET imageUrl == GenerateJoinResult(loc[s]).out.panels[BoxOf(i)].imageUrl
                        IN  /\ imageUrl = loc[s].imgs[i].url
                            /\ loc[s].imgs[i].ok => StartsWith(imageUrl, DataPngPrefix)
                            /\ ~loc[s].imgs[i].ok => imageUrl = loc[s].body.imageBase64
      ]_vars

\* every request has completed, one with an image, one with none, one with
\* an error, and the handler is about to answer
C12_MixedOutcomesSettled ==
    \E s \in Slots :
        /\ pc[s] = "gen_images"
        /\ \A i \in 1..5 : loc[s].imgs[i] # Pending
        /\ \E i \in 1..5 : loc[s].imgs[i].ok
        /\ \E i \in 1..5 : ~loc[s].imgs[i].ok /\ i \notin loc[s].threw
        /\ loc[s].threw # {}

C6_WrongPasswordRejected ==
    [][\A body \in LoginBodies :
         ( /\ Login(body)
           /\ env.JWT_SECRET # Unset
           /\ ~FalsyPw(body.password)
           /\ \E u \in UserByEmail(body.email) : <<u.id, body.password>> \notin plain )
            => (resp'.error = "Invalid credentials" /\ issued' = issued)]_vars

\* C7: with the server secret configured, every register request, under any
\* interleaving with other register requests, is answered 201 or 400.
C7_RegisterAnswers201Or400 ==
    (env.JWT_SECRET # Unset /\ resp.route = "register") => resp.status \in {201, 400}

\* C8: no two rows of table users have the same email.
C8_EmailsUnique ==
    \A u \in users : \A v \in users : u.email = v.email => u = v

\* two requests with one email both passed the SELECT, and the second INSERT
\* was refused
C8_SecondInsertRefused ==
    /\ resp.route = "register"
    /\ resp.error = "Failed to register user"
    /\ users # {}

\* C21: no answer of register, login or /me, success or error, holds a
\* field for the password or its hash or a value equal to the submitted
\* password or to a stored hash; the error messages are fixed texts; every
\* stored user holds the bcrypt hash of the password it registered with,
\* under some salt.
C21_NoPasswordNoHashInResponses ==
    LET Clean(res, password) ==
            /\ res.error \in {"", "Email, password, and name are required",
                              "Password must be at least 6 characters", "User already exists",
                              "Failed to register user", "Server configuration error",
                              "Email and password are required", "Invalid credentials",
                              "Access token required", "Invalid token", "User not found"}
            /\ DOMAIN res.out \subseteq {"none", "token", "user", "id", "email", "name", "phone"}
            /\ "id" \in DOMAIN res.out => res.out.id # password
            /\ "user" \in DOMAIN res.out
                 => /\ DOMAIN res.out.user = {"id", "email", "name"}
                    /\ res.out.user.id # password
            /\ "token" \in DOMAIN res.out
                 => /\ DOMAIN res.out.token = {"userId", "email", "exp", "key"}
                    /\ res.out.token.userId # password
    IN  /\ \A body \in RegisterBodies : Clean(RegisterCheckResult(body), body.password)
        /\ \A s \in Slots : \A salt \in Salts :
              pc[s] = "reg_insert" => Clean(RegisterInsertResult(loc[s], salt).res, loc[s].password)
        /\ \A body \in LoginBodies : Clean(LoginResult(body).res, body.password)
        /\ \A header \in Headers : \A body \in LoginBodies : Clean(MeResult(header), body.password)
        /\ \A u \in users :
              \E pair \in plain : \E salt \in Salts :
                 /\ pair[1] = u.id
                 /\ u.password_hash = BcryptHash(pair[2], salt)

\* a login has been answered 200 for a registered user with a phone
C21_LoginAnsweredWithUser ==
    /\ resp.route = "login"
    /\ resp.status = 200
    /\ \E u \in users : u.phone = "555"


(***************************************************************************)
(* The texts of the 500 answers                                            *)
(***************************************************************************)
\* C22: every 500 answer carries one of the fixed texts of the handlers; the
\* message of the exception that caused it (of the provider, of the runtime)
\* is never in the body.
C22_Every500CarriesFixedText ==
    resp.status = 500 =>
        resp.error \in {"Failed to generate comic", "Failed to edit image",
                        "Failed to upload image", "Failed to upload images",
                        "Failed to delete image", "Server configuration error"}

C24_RefusedImageAnswered400 ==
    /\ resp.route \in {"upload", "upload-multiple"}
    /\ resp.error \in {"imageBase64 is required", "images array is required",
                       "Invalid base64 image format"}
    => resp.status = 400

(***************************************************************************)
(* Whom a token stands for                                                 *)
(***************************************************************************)
\* C25: a token that register or login issued carries the id and the email
\* of the user it was issued for, the one registered or the one whose email
\* was logged in with; as long as it verifies, the gate of the protected
\* routes sets req.userId to that id and GET /me answers that user's id,
\* email, name and phone; no other user has that id.
C25_TokenActsAsItsUser ==
    /\ \A token \in issued :
         \E u \in users :
           /\ token.userId = ToStr(u.id) /\ token.email = u.email
           /\ \A v \in users : ToStr(v.id) = token.userId => v = u
           /\ JwtVerifies(token, env.JWT_SECRET) =>
                /\ AuthenticateToken(Bearer(token)).next
                /\ AuthenticateToken(Bearer(token)).ctx = Ctx(ToStr(u.id), u.email)
                /\ \A r \in ListResults(Bearer(token)) : r.ctx.userId = ToStr(u.id)
                /\ MeResult(Bearer(token)).status = 200
                /\ MeResult(Bearer(token)).out =
                     [id |-> ToStr(u.id), email |-> u.email, name |-> u.name, phone |-> u.phone]
    /\ \A body \in LoginBodies :
         LET r == LoginResult(body).res
         IN  r.status = 200 =>
               /\ r.out.token.email = body.email
               /\ \E u \in users : u.email = body.email /\ r.out.token.userId = ToStr(u.id)
    /\ \A s \in Slots : \A salt \in Salts :
         pc[s] = "reg_insert" =>
           LET r == RegisterInsertResult(loc[s], salt)
           IN  r.res.status = 201 =>
                 /\ r.res.out.token.email = loc[s].email
                 /\ \E u \in r.users \ users :
                      u.email = loc[s].email /\ r.res.out.token.userId = ToStr(u.id)

\* two users hold tokens, one of them past its expiry or not, and GET /me
\* has answered 200
C25_TwoUsersTokensAndMe ==
    /\ resp.route = "me" /\ resp.status = 200
    /\ \E t1, t2 \in issued : t1.userId # t2.userId /\ JwtVerifies(t2, env.JWT_SECRET)

(***************************************************************************)
(* The provider calls of one generate request                              *)
(***************************************************************************)
\* C26: a generate request that passed validation has one script request at
\* the provider (none when the API key is unset: the call fails before it
\* and is answered 500); the five image requests are made when, and only
\* when, the script call has returned a script; a script call that fails is
\* answered 500 with no image request made; an answer of 200 comes from a
\* request with one script request and five image requests, all five
\* returned.
C26_OneScriptCallThenFiveImageCalls ==
    [][ /\ \A body \in GenerateBodies :
             LET r == GenerateStartResult(Bearer(TokenOf(Ann, 2 * ExpiresInDays)), body)
             IN  GenerateValidation(body) = "" =>
                    \/ r.status = 0 /\ r.did.script = 1 /\ r.did.image = 0
                    \/ env.API_KEY = Unset /\ r.status = 500 /\ r.did.script = 0 /\ r.did.image = 0
        /\ \A s \in Slots :
             /\ pc[s] = "idle" /\ pc'[s] # "idle" =>
                  /\ pc'[s] = "gen_script" /\ env.API_KEY # Unset
                  /\ GenerateValidation(loc'[s].body) = ""
                  /\ loc'[s].did.script = 1 /\ loc'[s].did.image = 0
             /\ pc[s] = "gen_script" =>
                  /\ loc[s].did.script = 1 /\ loc[s].did.image = 0
                  /\ pc'[s] = "gen_images" => loc'[s].did.script = 1 /\ loc'[s].did.image = 5
                  /\ pc'[s] = "idle" => resp'.route = "generate" /\ resp'.status = 500
                  /\ \A outcome \in ScriptOutcomes \ {"script"} :
                       /\ GenerateScriptResult(loc[s], outcome).status = 500
                       /\ GenerateScriptResult(loc[s], outcome).did.script = 1
                       /\ GenerateScriptResult(loc[s], outcome).did.image = 0
             /\ pc'[s] = "gen_images" => pc[s] \in {"gen_script", "gen_images"}
             /\ pc[s] = "gen_images" =>
                  /\ loc[s].did.script = 1 /\ loc[s].did.image = 5
                  /\ pc'[s] = "idle" =>
                       /\ resp'.route = "generate" /\ resp'.status = 200
                       /\ \A i \in 1..5 : loc[s].imgs[i] # Pending
        /\ resp'.route = "generate" /\ resp'.status = 200 /\ resp' # resp =>
             \E s \in Slots : /\ pc[s] = "gen_images" /\ pc'[s] = "idle"
                              /\ GenerateJoinResult(loc[s]).did.script = 1
                              /\ GenerateJoinResult(loc[s]).did.image = 5
      ]_vars

\* a generate request answered 200, its script call and its five image
\* calls returned
C26_GenerateAnswered200 ==
    /\ resp.route = "generate" /\ resp.status = 200
    /\ pc["s1"] = "idle"
    /\ env.API_KEY # Unset

(***************************************************************************)
(* The id of GET /api/comics/:id                                           *)
(***************************************************************************)
\* C27: GET /:id answers 200 only when the requested id is, character for
\* character, the identifier of a comic of the caller; every other id, one
\* with characters after the digits included, is answered 404.
C27_GetAnswers200OnlyForExactOwnId ==
    [][ resp'.route = "get" /\ resp' # resp =>
          IF \E c \in comics : ToStr(c.id) = resp'.id /\ ToStr(c.user_id) = resp'.userId
          THEN resp'.status = 200
          ELSE resp'.status = 404
      ]_vars

(***************************************************************************)
(* Registrations that are not answered 201                                 *)
(***************************************************************************)
\* C28: the stored users change only on a step that answers a register
\* request 201 and issues its token; a register request answered otherwise
\* (400, 500) leaves the users as they were.
C28_UsersChangeOnlyWith201 ==
    [][ users' # users =>
          /\ resp'.route = "register" /\ resp'.status = 201
          /\ \E token \in issued' \ issued : \E u \in users' \ users : token.userId = ToStr(u.id)
      ]_vars

(***************************************************************************)
(* What the image routes remove and write                                  *)
(***************************************************************************)
\* C29: a step removes at most one file, and a file that is removed is inside
\* the uploads folder: its path from that folder does not begin with "..".
C29_RemovesOnlyFilesInsideUploads ==
    [][ /\ Cardinality(files \ files') <= 1
        /\ \A f \in files \ files' : f # <<>> /\ f[1] # <<"..">>
      ]_vars

\* C30: an upload-multiple request that is answered with an error has
\* written none of its images: the files are as they were before it.
C30_UploadMultipleErrorWritesNothing ==
    [][ resp'.route = "upload-multiple" /\ resp'.status >= 400 => files' = files ]_vars

============================================================================
